---- MODULE Spec2Model ----
(***************************************************************************)
(* Model of asio-raw-linklayer: the link-layer endpoint / protocol         *)
(* descriptor (include/ll_protocol.hpp) and the asynchronous raw server    *)
(* (src/async_raw_server.cpp), together with the reactor that completes    *)
(* the operations the server arms and the async listener sample            *)
(* (samples/async_eth_listener.cpp).                                       *)
(***************************************************************************)
EXTENDS Integers, Sequences, FiniteSets, TLC

VARIABLES
  server,      \* "none" | "alive" | "destroyed": the async_raw_server object
  thrown,      \* exception raised by the last constructor call, or "none"
  errno,       \* the thread's errno
  lastCtor,    \* record of the constructor call (arguments and steps)
  m_endpoint,  \* async_raw_server::m_endpoint
  m_socket,    \* async_raw_server::m_socket: "closed" | "open"
  m_buffer,    \* async_raw_server::m_buffer (the bytes last written into it)
  heap,        \* free store: address -> [alive, bytes]
  ops,         \* every operation handed to the reactor, in submission order
  caller_buf,  \* the caller's own payload memory of its latest async_send
  recv_calls,  \* number of async_recv calls made so far
  pc,          \* position of the program driving the server
  endpoints,   \* ll_endpoint objects of a program that uses the value type
  descriptor,  \* an ll_protocol object of that program
  call         \* the last call that program made on them

vars == << server, thrown, errno, lastCtor, m_endpoint, m_socket,
           m_buffer, heap, ops, caller_buf, recv_calls, pc,
           endpoints, descriptor, call >>

\* The state of the server and of the program driving it.
srvvars == << server, thrown, errno, lastCtor, m_endpoint, m_socket,
              m_buffer, heap, ops, caller_buf, recv_calls, pc >>

\* The state of a program that uses ll_endpoint and ll_protocol directly.
epvars == << endpoints, descriptor, call >>

---------------------------------------------------------------------------
(* Bounds of the model *)

MaxSeed == 1      \* byte patterns 0..MaxSeed (payloads, indeterminate memory)
MaxExtra == 0     \* payload bytes beyond an Ethernet header
MaxAddr == 2      \* free-store addresses 1..MaxAddr
MaxOps == 2       \* operations armed in one run of the caller-driven program
MaxSingle == 1    \* operations armed in one run, one operation at a time
MaxListenerOps == 4 \* operations armed in one run of the listener sample

(* Program constants *)

ETH_ALEN == 6          \* length of a hardware address
ETHER_HDR_LEN == 14    \* sizeof(struct ether_header)
PF_PACKET == 17
ETH_P_ALL == 3
ETH_P_IP == 2048
HATYPE_ETHER == 1      \* sll_hatype = 1
SLL_ADDR_LEN == 8      \* sizeof(sockaddr_ll::sll_addr)
ENODEV == 19           \* errno left by a failed if_nametoindex
UINT16_MOD == 65536
SOCKADDR_LL_SIZE == 20 \* sizeof(struct sockaddr_ll)

---------------------------------------------------------------------------
(* Bytes and memory *)

Seeds == 0 .. MaxSeed

\* A recognisable byte pattern of length n; seed 0 is 00 01 02 ..., the
\* pattern the listener sample sends.
Bytes(s, n) == [i \in 1 .. n |-> (s * 16 + i - 1) % 256]

\* Payload lengths a caller sends: empty, shorter than a hardware address,
\* and a hardware address or more.
SendLens == {0, ETH_ALEN - 1} \cup {ETH_ALEN + k : k \in 0 .. MaxExtra}

Payloads == {Bytes(s, n) : s \in Seeds, n \in SendLens}

\* Frames the socket receives: one byte short of an Ethernet header, and a
\* header or more.
FrameLens == {ETHER_HDR_LEN - 1} \cup {ETHER_HDR_LEN + k : k \in 0 .. MaxExtra}

Frames == {Bytes(0, n) : n \in FrameLens}

\* What a read of n bytes of memory whose lifetime has ended, or that was
\* never initialised, may return.
Indeterminate(n) == {Bytes(s, n) : s \in Seeds}

Addrs == 1 .. MaxAddr

FreeBlock == [alive |-> FALSE, bytes |-> << >>]

---------------------------------------------------------------------------
(* ll_protocol *)

\* htons on the little-endian hosts the library is built for: the two bytes
\* of the 16-bit value are swapped.
htons(x) == (x % 256) * 256 + (x \div 256)

ntohs(x) == (x % 256) * 256 + (x \div 256)

\* Mutant of ll_protocol: the identifier is stored in host order.
ll_protocol_host_order(eth_protocol, af_family) ==
  [m_protocol |-> eth_protocol, m_family |-> af_family]

\* ll_protocol(uint16_t eth_protocol, int af_family)
ll_protocol(eth_protocol, af_family) ==
  [m_protocol |-> htons(eth_protocol), m_family |-> af_family]

---------------------------------------------------------------------------
(* ll_endpoint *)

\* m_sockaddr as the object's storage holds it before a constructor body
\* runs: no constructor clears it, so every field starts indeterminate.
RawStorage(g) ==
  [sll_family |-> g, sll_protocol |-> g, sll_ifindex |-> g, sll_hatype |-> g,
   sll_pkttype |-> g, sll_halen |-> g, sll_addr |-> Bytes(g, SLL_ADDR_LEN)]

NullEndpoint ==
  [m_sockaddr |-> [sll_family |-> 0, sll_protocol |-> 0, sll_ifindex |-> 0,
                   sll_hatype |-> 0, sll_pkttype |-> 0, sll_halen |-> 0,
                   sll_addr |-> [i \in 1 .. SLL_ADDR_LEN |-> 0]],
   m_protocol_type |-> [m_protocol |-> 0, m_family |-> 0]]

\* The interfaces of the host: name -> kernel interface index.
IfNames == {"lo", "eth0"}

Interfaces == [n \in IfNames |-> IF n = "lo" THEN 1 ELSE 2]

\* Names a caller passes: none, the host's interfaces, one that is not there.
Names == {""} \cup IfNames \cup {"nope0"}

\* if_nametoindex(3): the index, or 0 with errno set when the name does not
\* resolve; errno is left alone on success.
if_nametoindex(ifname, err) ==
  IF ifname \in IfNames
    THEN [index |-> Interfaces[ifname], errno |-> err]
    ELSE [index |-> 0, errno |-> ENODEV]

\* Mutant of ResolveFailed: only errno is tested.
ResolveFailed_errno_only(ifindex, err) == err # 0

\* The test that decides whether the constructor throws.
ResolveFailed(ifindex, err) == ifindex = 0 /\ err # 0

\* ll_endpoint(const std::string& ifname, uint16_t eth_protocol), built in
\* storage g with errno = err on entry.
ll_endpoint_ifname(ifname, eth_protocol, err, g) ==
  LET proto == ll_protocol(eth_protocol, PF_PACKET)
      res   == IF ifname # "" THEN if_nametoindex(ifname, err)
                              ELSE [index |-> 0, errno |-> err]
      fail  == ifname # "" /\ ResolveFailed(res.index, res.errno)
  IN  [thrown |-> fail,
       errno  |-> res.errno,
       value  |-> IF fail THEN NullEndpoint
                  ELSE [m_sockaddr |->
                          [RawStorage(g) EXCEPT
                             !.sll_family = PF_PACKET,
                             !.sll_protocol = proto.m_protocol,
                             !.sll_ifindex = res.index,
                             !.sll_hatype = HATYPE_ETHER],
                        m_protocol_type |-> proto]]

\* ll_endpoint(struct sockaddr_ll& addr)
ll_endpoint_addr(addr) ==
  [m_sockaddr |-> addr, m_protocol_type |-> ll_protocol(ETH_P_ALL, PF_PACKET)]

\* ll_endpoint(uint16_t eth_protocol), built in storage g.
ll_endpoint_proto(eth_protocol, g) ==
  LET proto == ll_protocol(eth_protocol, PF_PACKET)
  IN  [m_sockaddr |->
         [RawStorage(g) EXCEPT
            !.sll_family = PF_PACKET,
            !.sll_protocol = proto.m_protocol,
            !.sll_ifindex = 0,
            !.sll_hatype = HATYPE_ETHER],
       m_protocol_type |-> proto]

\* ll_protocol::protocol() and ll_protocol::family()
protocol_protocol(p) == p.m_protocol

protocol_family(p) == p.m_family

\* ll_endpoint::protocol()
endpoint_protocol(ep) == ep.m_protocol_type

\* ll_endpoint::data()
endpoint_data(ep) == ep.m_sockaddr

\* ll_endpoint::operator=(const ll_endpoint& other)
endpoint_assign(this, other) == [this EXCEPT !.m_sockaddr = other.m_sockaddr]

\* The bytes of a little-endian integer of 2 and of 4 bytes.
le16(x) == << x % 256, (x \div 256) % 256 >>

le32(x) == << x % 256, (x \div 256) % 256,
              (x \div 65536) % 256, (x \div 16777216) % 256 >>

\* struct sockaddr_ll as it lies in memory: sll_family, sll_protocol,
\* sll_ifindex, sll_hatype, sll_pkttype, sll_halen, sll_addr[8].
sockaddr_bytes(sa) ==
  le16(sa.sll_family) \o le16(sa.sll_protocol) \o le32(sa.sll_ifindex)
    \o le16(sa.sll_hatype) \o << sa.sll_pkttype, sa.sll_halen >>
    \o sa.sll_addr

\* ll_endpoint::size(): sizeof(m_sockaddr)
endpoint_size(ep) == Len(sockaddr_bytes(ep.m_sockaddr))

\* ll_endpoint::capacity(): sizeof(m_sockaddr)
endpoint_capacity(ep) == Len(sockaddr_bytes(ep.m_sockaddr))

\* Mutant of endpoint_resize: the address length in use follows s.
endpoint_resize_truncates(ep, s) ==
  [ep EXCEPT !.m_sockaddr.sll_halen =
     IF s < endpoint_capacity(ep) THEN 0 ELSE @]

\* ll_endpoint::resize(std::size_t s): does nothing.
endpoint_resize(ep, s) == ep

\* Comparison of two sockaddr_ll: the bytes of the two structures, equal
\* or in lexicographic order.
sockaddr_eq(x, y) == sockaddr_bytes(x) = sockaddr_bytes(y)

sockaddr_lt(x, y) ==
  LET bx == sockaddr_bytes(x)
      by == sockaddr_bytes(y)
  IN  \E i \in 1 .. Len(bx) :
        /\ bx[i] < by[i]
        /\ \A j \in 1 .. (i - 1) : bx[j] = by[j]

\* The comparison operators of ll_endpoint.
operator_eq(e1, e2) == sockaddr_eq(e1.m_sockaddr, e2.m_sockaddr)

operator_ne(e1, e2) == ~sockaddr_eq(e1.m_sockaddr, e2.m_sockaddr)

operator_lt(e1, e2) == sockaddr_lt(e1.m_sockaddr, e2.m_sockaddr)

operator_gt(e1, e2) == sockaddr_lt(e2.m_sockaddr, e1.m_sockaddr)

operator_le(e1, e2) == ~operator_lt(e2, e1)

\* Mutant of operator_ge: the test of operator> is used.
operator_ge_strict(e1, e2) == operator_lt(e2, e1)

operator_ge(e1, e2) == ~operator_lt(e1, e2)

---------------------------------------------------------------------------
(* async_raw_server: construction *)

Protocols == {ETH_P_ALL, ETH_P_IP}

NoCtor ==
  [ifname |-> "", errnoBefore |-> 0, opened |-> FALSE,
   endpoint |-> NullEndpoint, called |-> FALSE]

\* Mutant of async_raw_server_ctor: m_socket is declared, and so
\* initialised, before m_endpoint.
async_raw_server_ctor_socket_first(ifname, protocol, err, g, openOk) ==
  LET ep == ll_endpoint_ifname(ifname, protocol % UINT16_MOD, err, g)
  IN  [thrown   |-> IF ~openOk THEN "open_or_bind"
                    ELSE IF ep.thrown THEN "interface_not_found" ELSE "none",
       errno    |-> IF openOk THEN ep.errno ELSE err,
       endpoint |-> IF openOk THEN ep.value ELSE NullEndpoint,
       opened   |-> TRUE,
       socket   |-> IF ~ep.thrown /\ openOk THEN "open" ELSE "closed"]

\* The member initialisers in declaration order: m_endpoint(ifname,
\* protocol) first, then m_socket(ios, m_endpoint), which opens and binds
\* the socket (openOk: whether the OS lets it).  The int protocol is
\* narrowed to uint16_t on the way into the endpoint.
async_raw_server_ctor(ifname, protocol, err, g, openOk) ==
  LET ep == ll_endpoint_ifname(ifname, protocol % UINT16_MOD, err, g)
  IN  [thrown   |-> IF ep.thrown THEN "interface_not_found"
                    ELSE IF ~openOk THEN "open_or_bind" ELSE "none",
       errno    |-> ep.errno,
       endpoint |-> ep.value,
       opened   |-> ~ep.thrown,
       socket   |-> IF ~ep.thrown /\ openOk THEN "open" ELSE "closed"]

\* The effect of one constructor call on the program's state.
construct(ifname, protocol, g, openOk) ==
  LET r == async_raw_server_ctor(ifname, protocol, errno, g, openOk)
  IN  /\ thrown' = r.thrown
      /\ errno' = r.errno
      /\ lastCtor' = [ifname |-> ifname, errnoBefore |-> errno,
                      opened |-> r.opened, endpoint |-> r.endpoint,
                      called |-> TRUE]
      /\ server' = IF r.thrown = "none" THEN "alive" ELSE "none"
      /\ m_endpoint' = IF r.thrown = "none" THEN r.endpoint ELSE NullEndpoint
      /\ m_socket' = r.socket

\* A caller constructs the server; after a constructor that threw there is
\* no server, and the caller may try again.
Construct(names, protocols) ==
  /\ pc = "caller"
  /\ server = "none"
  /\ \E n \in names, p \in protocols, g \in Seeds, ok \in BOOLEAN :
       construct(n, p, g, ok)
  /\ UNCHANGED << m_buffer, heap, ops, caller_buf, recv_calls, pc >>
  /\ UNCHANGED epvars

---------------------------------------------------------------------------
(* Operations in the reactor *)

\* Result codes the socket gives an operation it performs.
KernelErrors == {"success", "message_size", "network_down"}

\* A receive that hands bytes to the buffer: success, or a truncated frame.
Delivers(err) == err \in {"success", "message_size"}

\* What a performed receive may yield: a frame, a truncated frame, or a
\* hard error with nothing received.
RecvOutcomes ==
  {[err |-> "success", frame |-> f] : f \in Frames}
    \cup {[err |-> "message_size", frame |-> Bytes(0, ETHER_HDR_LEN + MaxExtra)],
          [err |-> "network_down", frame |-> << >>]}

NewOp(kind) ==
  [kind |-> kind, state |-> "pending", err |-> "none", nb |-> 0,
   buf |-> 0, len |-> 0, payload |-> << >>,
   dest |-> NullEndpoint.m_sockaddr, sent |-> << >>,
   hErr |-> "none", hNb |-> 0, calls |-> 0, onDead |-> FALSE,
   path |-> "none", read |-> "none",
   remote |-> "none", rd |-> 0, via |-> "none"]

\* The socket satisfies a receive: result code and byte count are recorded
\* in the operation, whose completion is then ready to be dispatched.
recv_complete(op, out) ==
  [op EXCEPT !.state = "ready", !.err = out.err,
             !.nb = IF Delivers(out.err) THEN Len(out.frame) ELSE 0,
             !.remote = "none"]

\* What writing the sender's address does to the process: nothing when
\* the storage is alive; when its lifetime has ended the write lands in
\* whatever the stack holds there now, harmlessly or not.
sender_write_outcomes(op) ==
  IF op.remote = "dead" THEN {"written", "crash"} ELSE {"written"}

\* The receive buffer after a receive was performed.
recv_buffer(buffer, out) == IF Delivers(out.err) THEN out.frame ELSE buffer

\* The socket performs a send: it reads op.len bytes at op.buf.  A block
\* that is no longer allocated yields indeterminate bytes (garbage).
send_complete(op, h, err, garbage) ==
  LET bytes == IF h[op.buf].alive THEN h[op.buf].bytes ELSE garbage
  IN  [op EXCEPT !.state = "ready", !.err = err,
                 !.nb = IF err = "success" THEN op.len ELSE 0,
                 !.sent = IF err = "success" THEN bytes ELSE << >>]

\* Closing the socket cancels an operation still queued on it.
cancel(op) ==
  IF op.state = "pending"
    THEN [op EXCEPT !.state = "ready", !.err = "operation_aborted", !.nb = 0,
                    !.remote = "none"]
    ELSE op

\* Mutant of invoke: the core arms the operation again by itself after
\* its handler ran.
invoke_rearms(op, srv) ==
  [op EXCEPT !.state = "pending", !.hErr = op.err, !.hNb = op.nb,
             !.calls = @ + 1, !.onDead = (srv = "destroyed")]

\* Mutant of invoke: the core classifies the result, handing a truncated
\* frame to the handler as a success.
invoke_masks_truncation(op, srv) ==
  [op EXCEPT !.state = "done",
             !.hErr = IF op.err = "message_size" THEN "success" ELSE op.err,
             !.hNb = op.nb,
             !.calls = @ + 1, !.onDead = (srv = "destroyed"),
             !.buf = 0, !.len = 0, !.payload = << >>, !.sent = << >>,
             !.dest = NullEndpoint.m_sockaddr,
             !.remote = "none", !.rd = 0, !.via = "none"]

\* The bound completion handler: boost::bind(&handle_xxx, this,
\* placeholders::error, placeholders::bytes_transferred), invoked by the
\* reactor with the operation's result on the object `this` points to.
\* The reactor then destroys the operation (its buffer and destination).
invoke(op, srv) ==
  [op EXCEPT !.state = "done", !.hErr = op.err, !.hNb = op.nb,
             !.calls = @ + 1, !.onDead = (srv = "destroyed"),
             !.buf = 0, !.len = 0, !.payload = << >>, !.sent = << >>,
             !.dest = NullEndpoint.m_sockaddr,
             !.remote = "none", !.rd = 0, !.via = "none"]

InFlight(op) == op.state \in {"pending", "ready"}

---------------------------------------------------------------------------
(* async_raw_server: operations *)

\* async_recv returns: the local `remote` that async_receive_from was
\* given by reference goes out of scope.
leave_async_recv(op) ==
  [op EXCEPT !.remote = IF @ = "alive" THEN "dead" ELSE @]

\* async_recv(): arms one receive into m_buffer, the sender's address to
\* be written into the local `remote`.  `now`: the socket already holds a
\* frame, so the receive is satisfied inside the call.
async_recv(o, buffer, now, out) ==
  LET op  == [NewOp("recv") EXCEPT !.remote = "alive"]
      op1 == IF now THEN recv_complete(op, out) ELSE op
  IN  [ops |-> Append(o, leave_async_recv(op1)),
       m_buffer |-> IF now THEN recv_buffer(buffer, out) ELSE buffer]

\* The six bytes memcpy reads at hdr->ether_dhost: the payload's first
\* ETH_ALEN bytes; what lies past the payload's end is indeterminate (g).
\* Mutant of ether_dhost: the six bytes are read at ether_shost, the next
\* field of the header.
ether_dhost_from_shost(data, g) ==
  [i \in 1 .. ETH_ALEN |->
     IF i + ETH_ALEN <= Len(data) THEN data[i + ETH_ALEN]
                                  ELSE Bytes(g, ETH_ALEN)[i]]

ether_dhost(data, g) ==
  [i \in 1 .. ETH_ALEN |->
     IF i <= Len(data) THEN data[i] ELSE Bytes(g, ETH_ALEN)[i]]

\* Mutant of send_destination: the address is built in a cleared
\* sockaddr_ll instead of a copy of the bound one.
send_destination_unbound(ep, data, g) ==
  ll_endpoint_addr(
    [NullEndpoint.m_sockaddr EXCEPT
       !.sll_family = PF_PACKET,
       !.sll_halen = ETH_ALEN,
       !.sll_addr = [i \in 1 .. SLL_ADDR_LEN |->
                       IF i <= ETH_ALEN THEN ether_dhost(data, g)[i] ELSE 0]])

\* The destination async_send builds: a copy of the bound address with the
\* hardware address taken from the payload.
send_destination(ep, data, g) ==
  LET addr == [ep.m_sockaddr EXCEPT
                 !.sll_halen = ETH_ALEN,
                 !.sll_addr = [i \in 1 .. SLL_ADDR_LEN |->
                                 IF i <= ETH_ALEN THEN ether_dhost(data, g)[i]
                                                  ELSE @[i]]]
  IN  ll_endpoint_addr(addr)

FreeAddrs(h) == {a \in Addrs : ~h[a].alive}

\* operator new: the lowest free address, so a block just freed is the
\* next one handed out.
allocate(h) == CHOOSE a \in FreeAddrs(h) : \A b \in FreeAddrs(h) : a <= b

\* The free store after async_send returns: `copy`, the only owner of the
\* block at a, goes out of scope.
release_copy(h, a) == [h EXCEPT ![a] = FreeBlock]

\* The number of bytes of data the call reads from its start: memcpy's
\* ETH_ALEN at hdr->ether_dhost, and the vector's own length for the copy.
bytes_read(data) == IF Len(data) < ETH_ALEN THEN ETH_ALEN ELSE Len(data)

\* What memcpy's read at hdr->ether_dhost does: data() of an empty vector
\* may be null, and the read then faults; otherwise it yields bytes.
dhost_read_outcomes(data) ==
  IF Len(data) = 0 THEN {"read", "crash"} ELSE {"read"}

\* Mutant of bound_after_send: addr is a reference to the bound address,
\* not a copy of it.
bound_after_send_aliased(ep, remote) ==
  [ep EXCEPT !.m_sockaddr = remote.m_sockaddr]

\* The bound endpoint after async_send built the destination: addr is a
\* copy, so m_endpoint is as it was.
bound_after_send(ep, remote) == ep

\* async_send(const std::vector<char>& data).
\* `now`: the socket accepts the frame inside the call.
async_send(o, h, ep, data, g, now, err) ==
  LET remote == send_destination(ep, data, g)
      a      == allocate(h)
      h1     == [h EXCEPT ![a] = [alive |-> TRUE, bytes |-> data]]
      op     == [NewOp("send") EXCEPT !.buf = a, !.len = Len(data),
                                      !.payload = data,
                                      !.dest = remote.m_sockaddr,
                                      !.rd = bytes_read(data),
                                      !.via = "vector"]
      op1    == IF now THEN send_complete(op, h1, err, << >>) ELSE op
  IN  [ops |-> Append(o, op1), heap |-> release_copy(h1, a),
       m_endpoint |-> bound_after_send(ep, remote)]

\* async_send(const char* data, size_t data_len): a local vector holds
\* the bytes while the vector overload runs, and is freed on return.
async_send_ptr(o, h, ep, data, g, now, err) ==
  LET a1 == allocate(h)
      h1 == [h EXCEPT ![a1] = [alive |-> TRUE, bytes |-> data]]
      r  == async_send(o, h1, ep, h1[a1].bytes, g, now, err)
  IN  [ops |-> [r.ops EXCEPT ![Len(r.ops)].via = "pointer"],
       heap |-> [r.heap EXCEPT ![a1] = FreeBlock],
       m_endpoint |-> r.m_endpoint]

\* The effect of one async_send call, r, on the program: read is what the
\* read at hdr->ether_dhost did.  A fault ends the process inside the call.
send_call(r, data, read) ==
  IF read = "crash"
    THEN /\ pc' = "crashed"
         /\ UNCHANGED << ops, heap, m_endpoint, caller_buf >>
    ELSE /\ ops' = r.ops /\ heap' = r.heap /\ m_endpoint' = r.m_endpoint
         /\ caller_buf' = [alive |-> TRUE, bytes |-> data]
         /\ pc' = pc

Running == pc \in {"caller", "run"}

AsyncRecv(limit) ==
  /\ pc = "caller"
  /\ server = "alive"
  /\ Len(ops) < limit
  /\ \E now \in BOOLEAN, out \in RecvOutcomes :
       LET r == async_recv(ops, m_buffer, now, out)
       IN  ops' = r.ops /\ m_buffer' = r.m_buffer
  /\ recv_calls' = recv_calls + 1
  /\ UNCHANGED << server, thrown, errno, lastCtor, m_endpoint,
                  m_socket, heap, caller_buf, pc >>
  /\ UNCHANGED epvars

AsyncSendVec(limit, payloads) ==
  /\ pc = "caller"
  /\ server = "alive"
  /\ Len(ops) < limit
  /\ \E data \in payloads, g \in Seeds, now \in BOOLEAN, err \in KernelErrors :
       \E read \in dhost_read_outcomes(data) :
         send_call(async_send(ops, heap, m_endpoint, data, g, now, err),
                   data, read)
  /\ UNCHANGED << server, thrown, errno, lastCtor,
                  m_socket, m_buffer, recv_calls >>
  /\ UNCHANGED epvars

AsyncSendPtr(limit, payloads) ==
  /\ pc = "caller"
  /\ server = "alive"
  /\ Len(ops) < limit
  /\ \E data \in payloads, g \in Seeds, now \in BOOLEAN, err \in KernelErrors :
       \E read \in dhost_read_outcomes(data) :
         send_call(async_send_ptr(ops, heap, m_endpoint, data, g, now, err),
                   data, read)
  /\ UNCHANGED << server, thrown, errno, lastCtor,
                  m_socket, m_buffer, recv_calls >>
  /\ UNCHANGED epvars

\* The caller reuses, or gives up, the memory it passed to async_send while
\* a send is still in flight.
SendInFlight == \E i \in DOMAIN ops : ops[i].kind = "send" /\ InFlight(ops[i])

CallerMutates ==
  /\ pc = "caller"
  /\ SendInFlight
  /\ caller_buf.alive
  /\ \E bytes \in Indeterminate(Len(caller_buf.bytes)) :
       /\ bytes # caller_buf.bytes
       /\ caller_buf' = [caller_buf EXCEPT !.bytes = bytes]
  /\ UNCHANGED << server, thrown, errno, lastCtor, m_endpoint,
                  m_socket, m_buffer, heap, ops, recv_calls, pc >>
  /\ UNCHANGED epvars

CallerFrees ==
  /\ pc = "caller"
  /\ SendInFlight
  /\ caller_buf.alive
  /\ caller_buf' = FreeBlock
  /\ UNCHANGED << server, thrown, errno, lastCtor, m_endpoint,
                  m_socket, m_buffer, heap, ops, recv_calls, pc >>
  /\ UNCHANGED epvars

\* ~async_raw_server(): m_socket is destroyed, which closes the socket and
\* cancels what is queued on it; the completions stay with the reactor.
destroy_server ==
  /\ server' = "destroyed"
  /\ m_socket' = "closed"
  /\ ops' = [i \in DOMAIN ops |-> cancel(ops[i])]

Destroy ==
  /\ pc = "caller"
  /\ server = "alive"
  /\ destroy_server
  /\ UNCHANGED << thrown, errno, lastCtor, m_endpoint, m_buffer,
                  heap, caller_buf, recv_calls, pc >>
  /\ UNCHANGED epvars

---------------------------------------------------------------------------
(* The reactor *)

\* The socket becomes readable: a queued receive is performed.
KernelRecv ==
  /\ Running
  /\ m_socket = "open"
  /\ \E i \in DOMAIN ops, out \in RecvOutcomes :
       /\ ops[i].kind = "recv" /\ ops[i].state = "pending"
       /\ \E w \in sender_write_outcomes(ops[i]) :
            IF w = "crash"
              THEN pc' = "crashed" /\ UNCHANGED << ops, m_buffer >>
              ELSE /\ ops' = [ops EXCEPT ![i] = recv_complete(@, out)]
                   /\ m_buffer' = recv_buffer(m_buffer, out)
                   /\ pc' = pc
  /\ UNCHANGED << server, thrown, errno, lastCtor, m_endpoint,
                  m_socket, heap, caller_buf, recv_calls >>
  /\ UNCHANGED epvars

\* The socket becomes writable: a queued send is performed.
KernelSend ==
  /\ Running
  /\ m_socket = "open"
  /\ \E i \in DOMAIN ops, err \in KernelErrors :
       /\ ops[i].kind = "send" /\ ops[i].state = "pending"
       /\ \E garbage \in Indeterminate(ops[i].len) :
            ops' = [ops EXCEPT ![i] = send_complete(@, heap, err, garbage)]
  /\ UNCHANGED << server, thrown, errno, lastCtor, m_endpoint,
                  m_socket, m_buffer, heap, caller_buf, recv_calls, pc >>
  /\ UNCHANGED epvars

\* A receive completion is dispatched to handle_recv, which is the
\* application's: it may arm the next receive (rearm) or not.
DispatchRecv(limit) ==
  /\ pc = "caller"
  /\ \E i \in DOMAIN ops, rearm \in BOOLEAN :
       /\ ops[i].kind = "recv" /\ ops[i].state = "ready"
       /\ LET done == [ops EXCEPT ![i] = invoke(@, server)]
          IN  IF rearm /\ server = "alive" /\ Len(ops) < limit
                THEN /\ \E now \in BOOLEAN, out \in RecvOutcomes :
                          LET r == async_recv(done, m_buffer, now, out)
                          IN  ops' = r.ops /\ m_buffer' = r.m_buffer
                     /\ recv_calls' = recv_calls + 1
                ELSE /\ ops' = done /\ m_buffer' = m_buffer
                     /\ recv_calls' = recv_calls
  /\ UNCHANGED << server, thrown, errno, lastCtor, m_endpoint,
                  m_socket, heap, caller_buf, pc >>
  /\ UNCHANGED epvars

\* A send completion is dispatched to handle_send.
DispatchSend ==
  /\ Running
  /\ \E i \in DOMAIN ops :
       /\ ops[i].kind = "send" /\ ops[i].state = "ready"
       /\ ops' = [ops EXCEPT ![i] = invoke(@, server)]
  /\ UNCHANGED << server, thrown, errno, lastCtor, m_endpoint,
                  m_socket, m_buffer, heap, caller_buf, recv_calls, pc >>
  /\ UNCHANGED epvars

---------------------------------------------------------------------------
(* A program that uses ll_endpoint and ll_protocol as values *)

\* The names of the program's endpoint objects.
Slots == {"a", "b", "c"}

\* No endpoint object constructed yet.
NoEndpoints == [s \in {} |-> NullEndpoint]

NoDescriptor == [m_protocol |-> 0, m_family |-> 0]

NoCall ==
  [op |-> "none", dst |-> "", src |-> "", v |-> 0, ifname |-> "",
   thrown |-> FALSE, old |-> NullEndpoint, s |-> 0]

---------------------------------------------------------------------------
(* The caller-driven program: any caller of the server's interface *)

Unconstructed(p) ==
  /\ server = "none"
  /\ thrown = "none"
  /\ errno = 0
  /\ lastCtor = NoCtor
  /\ m_endpoint = NullEndpoint
  /\ m_socket = "closed"
  /\ m_buffer = << >>
  /\ heap = [a \in Addrs |-> FreeBlock]
  /\ ops = << >>
  /\ caller_buf = FreeBlock
  /\ recv_calls = 0
  /\ pc = p

Start(p) ==
  /\ Unconstructed(p)
  /\ endpoints = NoEndpoints
  /\ descriptor = NoDescriptor
  /\ call = NoCall

Init == Start("caller")

Next ==
  \/ Construct({"eth0"}, {ETH_P_ALL})
  \/ AsyncRecv(MaxOps)
  \/ AsyncSendVec(MaxOps, Payloads)
  \/ AsyncSendPtr(MaxOps, Payloads)
  \/ CallerMutates
  \/ CallerFrees
  \/ Destroy
  \/ KernelRecv
  \/ KernelSend
  \/ DispatchRecv(MaxOps)
  \/ DispatchSend

Spec == Init /\ [][Next]_vars

---------------------------------------------------------------------------
(* The same program, one operation at a time *)

NextSingle ==
  \/ Construct({"eth0"}, {ETH_P_ALL})
  \/ AsyncRecv(MaxSingle)
  \/ AsyncSendVec(MaxSingle, Payloads)
  \/ AsyncSendPtr(MaxSingle, Payloads)
  \/ Destroy
  \/ KernelRecv
  \/ KernelSend
  \/ DispatchRecv(MaxSingle)
  \/ DispatchSend

SpecSingle == Init /\ [][NextSingle]_vars

---------------------------------------------------------------------------
(* Sends of payloads that carry a destination address, on any binding *)

\* A hardware address alone, and a frame with a whole Ethernet header or
\* more whose bytes after the destination address are another pattern.
HeaderPayloads ==
  {Bytes(s, ETH_ALEN) \o Bytes(t, n - ETH_ALEN) :
     s \in Seeds, t \in Seeds, n \in {ETH_ALEN, ETHER_HDR_LEN + MaxExtra}}

NextFrames ==
  \/ Construct({"", "eth0"}, Protocols)
  \/ AsyncSendVec(MaxSingle, HeaderPayloads)
  \/ AsyncSendPtr(MaxSingle, HeaderPayloads)
  \/ KernelSend
  \/ DispatchSend
  \/ Destroy

SpecFrames == Init /\ [][NextFrames]_vars

---------------------------------------------------------------------------
(* Construction: every interface name and filter, then receives *)

NextCtor ==
  \/ Construct(Names, Protocols)
  \/ AsyncRecv(MaxOps)
  \/ KernelRecv
  \/ DispatchRecv(MaxOps)
  \/ Destroy

SpecCtor == Init /\ [][NextCtor]_vars

---------------------------------------------------------------------------
(* The async listener sample: eth_listener and its main *)

\* The frame main sends: 00 .. 0B, then EtherType 0x86DD.
SampleFrame == << 0, 1, 2, 3, 4, 5, 6, 7, 8, 9, 10, 11, 134, 221 >>

\* The path eth_listener::handle_recv takes.
handle_recv_path(error, nb) ==
  IF error # "success" /\ error # "message_size" THEN "error"
  ELSE IF nb < ETHER_HDR_LEN THEN "short"
  ELSE "frame"

\* Mutant of handle_recv_rearms: the short-frame path returns without
\* arming the next receive.
handle_recv_rearms_but_short(path) == path \in {"error", "frame"}

\* Whether handle_recv calls async_recv() on a path: it does on all three.
handle_recv_rearms(path) == path \in {"error", "short", "frame"}

\* Mutant of handle_recv_reads: the frame is parsed after the next
\* receive was armed.
handle_recv_reads_after_rearm(path) ==
  IF path = "frame" THEN "after" ELSE "none"

\* Where handle_recv reads buffer(): on the path that parses the frame,
\* before its async_recv(); on the other two paths, nowhere.
handle_recv_reads(path) == IF path = "frame" THEN "before" ELSE "none"

\* A receive is armed on the buffer, or has written it and awaits its
\* handler.
buffer_in_use(o) == \E j \in DOMAIN o : o[j].kind = "recv" /\ InFlight(o[j])

\* What handle_recv's read of buffer() met: before and after are the
\* operations as they are before and after its async_recv().
buffer_read(reads, before, after) ==
  IF reads = "none" THEN "none"
  ELSE IF buffer_in_use(IF reads = "before" THEN before ELSE after)
    THEN "outstanding"
    ELSE "idle"

\* eth_listener server(ios, ifname ? ifname : "", ETH_P_ALL); an exception
\* ends main.
ListenerConstruct ==
  /\ pc = "main"
  /\ \E n \in Names, g \in Seeds, ok \in BOOLEAN :
       /\ construct(n, ETH_P_ALL, g, ok)
       /\ pc' = IF async_raw_server_ctor(n, ETH_P_ALL, errno, g, ok).thrown = "none"
                  THEN "constructed" ELSE "exit"
  /\ UNCHANGED << m_buffer, heap, ops, caller_buf, recv_calls >>
  /\ UNCHANGED epvars

\* server.async_recv();
ListenerStart ==
  /\ pc = "constructed"
  /\ \E now \in BOOLEAN, out \in RecvOutcomes :
       LET r == async_recv(ops, m_buffer, now, out)
       IN  ops' = r.ops /\ m_buffer' = r.m_buffer
  /\ recv_calls' = recv_calls + 1
  /\ pc' = "armed"
  /\ UNCHANGED << server, thrown, errno, lastCtor, m_endpoint,
                  m_socket, heap, caller_buf >>
  /\ UNCHANGED epvars

\* The block that fills buf and calls server.async_send(buf, 14); buf's
\* lifetime ends with the block.
ListenerSend ==
  /\ pc = "armed"
  /\ \E g \in Seeds, now \in BOOLEAN, err \in KernelErrors :
       LET r == async_send_ptr(ops, heap, m_endpoint, SampleFrame, g, now, err)
       IN  ops' = r.ops /\ heap' = r.heap /\ m_endpoint' = r.m_endpoint
  /\ caller_buf' = FreeBlock
  /\ pc' = "run"
  /\ UNCHANGED << server, thrown, errno, lastCtor,
                  m_socket, m_buffer, recv_calls >>
  /\ UNCHANGED epvars

\* ios.run() dispatches a receive completion to eth_listener::handle_recv.
ListenerHandleRecv ==
  /\ pc = "run"
  /\ Len(ops) < MaxListenerOps
  /\ \E i \in DOMAIN ops :
       /\ ops[i].kind = "recv" /\ ops[i].state = "ready"
       /\ LET path == handle_recv_path(ops[i].err, ops[i].nb)
              done == [ops EXCEPT ![i] = [invoke(@, server) EXCEPT !.path = path]]
              reads == handle_recv_reads(path)
          IN  IF handle_recv_rearms(path)
                THEN /\ \E now \in BOOLEAN, out \in RecvOutcomes :
                          LET r == async_recv(done, m_buffer, now, out)
                          IN  /\ ops' = [r.ops EXCEPT ![i].read =
                                          buffer_read(reads, done, r.ops)]
                              /\ m_buffer' = r.m_buffer
                     /\ recv_calls' = recv_calls + 1
                ELSE /\ ops' = [done EXCEPT ![i].read =
                                  buffer_read(reads, done, done)]
                     /\ m_buffer' = m_buffer
                     /\ recv_calls' = recv_calls
  /\ UNCHANGED << server, thrown, errno, lastCtor, m_endpoint,
                  m_socket, heap, caller_buf, pc >>
  /\ UNCHANGED epvars

\* SIGINT or SIGTERM: signal_handler calls ios.stop(), and run() returns.
ListenerStop ==
  /\ pc = "run"
  /\ pc' = "stopped"
  /\ UNCHANGED << server, thrown, errno, lastCtor, m_endpoint, m_socket,
                  m_buffer, heap, ops, caller_buf, recv_calls >>
  /\ UNCHANGED epvars

\* A completion the io_service still holds when it is destroyed is
\* discarded without its handler being invoked.
discard(op) == IF InFlight(op) THEN [op EXCEPT !.state = "discarded"] ELSE op

\* The end of the try block: server is destroyed, then ios.
ListenerExit ==
  /\ pc = "stopped"
  /\ server' = "destroyed"
  /\ m_socket' = "closed"
  /\ ops' = [i \in DOMAIN ops |-> discard(cancel(ops[i]))]
  /\ pc' = "exit"
  /\ UNCHANGED << thrown, errno, lastCtor, m_endpoint, m_buffer,
                  heap, caller_buf, recv_calls >>
  /\ UNCHANGED epvars

InitListener == Start("main")

NextListener ==
  \/ ListenerConstruct
  \/ ListenerStart
  \/ ListenerSend
  \/ KernelRecv
  \/ KernelSend
  \/ ListenerHandleRecv
  \/ DispatchSend
  \/ ListenerStop
  \/ ListenerExit

SpecListener == InitListener /\ [][NextListener]_vars

---------------------------------------------------------------------------
(* The program of endpoint values: constructors, assignment, resize *)

\* The object named d now holds ep.
put(eps, d, ep) ==
  [t \in DOMAIN eps \cup {d} |-> IF t = d THEN ep ELSE eps[t]]

\* Socket addresses a caller hands to ll_endpoint(struct sockaddr_ll&): a
\* cleared structure, and the address of a peer on interface 1.
RawAddrs ==
  {NullEndpoint.m_sockaddr}
    \cup {[sll_family |-> PF_PACKET, sll_protocol |-> htons(ETH_P_IP),
           sll_ifindex |-> 1, sll_hatype |-> HATYPE_ETHER, sll_pkttype |-> 0,
           sll_halen |-> ETH_ALEN,
           sll_addr |-> [i \in 1 .. SLL_ADDR_LEN |->
                           IF i <= ETH_ALEN THEN Bytes(s, ETH_ALEN)[i] ELSE 0]]
             : s \in Seeds}

\* Sizes a caller passes to resize: none, the structure's, and more.
ResizeArgs == {0, SOCKADDR_LL_SIZE, 128}

\* ll_endpoint<ll_protocol> d(v);
EndpointFromProtocol(slots, types) ==
  /\ \E d \in slots, v \in types, g \in Seeds :
       /\ endpoints' = put(endpoints, d, ll_endpoint_proto(v, g))
       /\ call' = [NoCall EXCEPT !.op = "ll_endpoint(protocol)",
                                 !.dst = d, !.v = v]
  /\ UNCHANGED << srvvars, descriptor >>

\* ll_endpoint<ll_protocol> d(n, v); a constructor that throws leaves no
\* object.
EndpointFromIfname(slots, names, types) ==
  /\ \E d \in slots, n \in names, v \in types, g \in Seeds :
       LET r == ll_endpoint_ifname(n, v, errno, g)
       IN  /\ endpoints' = IF r.thrown THEN endpoints
                                       ELSE put(endpoints, d, r.value)
           /\ errno' = r.errno
           /\ call' = [NoCall EXCEPT !.op = "ll_endpoint(ifname, protocol)",
                                     !.dst = d, !.v = v, !.ifname = n,
                                     !.thrown = r.thrown]
  /\ UNCHANGED << server, thrown, lastCtor, m_endpoint, m_socket, m_buffer,
                  heap, ops, caller_buf, recv_calls, pc, descriptor >>

\* ll_endpoint<ll_protocol> d(addr);
EndpointFromAddr(slots) ==
  /\ \E d \in slots, addr \in RawAddrs :
       /\ endpoints' = put(endpoints, d, ll_endpoint_addr(addr))
       /\ call' = [NoCall EXCEPT !.op = "ll_endpoint(addr)", !.dst = d]
  /\ UNCHANGED << srvvars, descriptor >>

\* d = s;
EndpointAssign ==
  /\ \E d \in DOMAIN endpoints, s \in DOMAIN endpoints :
       /\ endpoints' = [endpoints EXCEPT
                          ![d] = endpoint_assign(endpoints[d], endpoints[s])]
       /\ call' = [NoCall EXCEPT !.op = "operator=", !.dst = d, !.src = s]
  /\ UNCHANGED << srvvars, descriptor >>

\* d.resize(s);
EndpointResize ==
  /\ \E d \in DOMAIN endpoints, s \in ResizeArgs :
       /\ endpoints' = [endpoints EXCEPT
                          ![d] = endpoint_resize(endpoints[d], s)]
       /\ call' = [NoCall EXCEPT !.op = "resize", !.dst = d, !.s = s,
                                 !.old = endpoints[d]]
  /\ UNCHANGED << srvvars, descriptor >>

NextEndpoint ==
  \/ EndpointFromProtocol({"a", "b"}, Protocols)
  \/ EndpointFromIfname({"a", "b"}, {"", "eth0", "nope0"}, Protocols)
  \/ EndpointFromAddr({"a", "b"})
  \/ EndpointAssign
  \/ EndpointResize

SpecEndpoint == Init /\ [][NextEndpoint]_vars

---------------------------------------------------------------------------
(* The program that compares endpoints: three objects, any constructor *)

NextCompare ==
  \/ EndpointFromProtocol(Slots, Protocols)
  \/ EndpointFromIfname(Slots, IfNames, {ETH_P_ALL})
  \/ EndpointFromAddr(Slots)

SpecCompare == Init /\ [][NextCompare]_vars

---------------------------------------------------------------------------
(* The program that constructs one descriptor or endpoint from a filter *)

\* Every value of a uint16_t.
EtherTypes == 0 .. (UINT16_MOD - 1)

\* ll_protocol descriptor(v);
DescriptorConstruct ==
  /\ call.op = "none"
  /\ descriptor' = ll_protocol(call.v, PF_PACKET)
  /\ call' = [call EXCEPT !.op = "ll_protocol"]
  /\ UNCHANGED << srvvars, endpoints >>

FilterEndpoint ==
  /\ call.op = "none"
  /\ EndpointFromProtocol({"a"}, {call.v})

FilterEndpointOnInterface ==
  /\ call.op = "none"
  /\ EndpointFromIfname({"a"}, {"eth0"}, {call.v})

\* The filter the program was given.
InitEtherType ==
  /\ Unconstructed("caller")
  /\ endpoints = NoEndpoints
  /\ descriptor = NoDescriptor
  /\ \E v \in EtherTypes : call = [NoCall EXCEPT !.v = v]

NextEtherType ==
  \/ DescriptorConstruct
  \/ FilterEndpoint
  \/ FilterEndpointOnInterface

SpecEtherType == InitEtherType /\ [][NextEtherType]_vars

---------------------------------------------------------------------------
(* Properties *)

SendOps == {i \in DOMAIN ops : ops[i].kind = "send"}

RecvOps == {i \in DOMAIN ops : ops[i].kind = "recv"}

Transmitted(i) == ops[i].state = "ready" /\ ops[i].err = "success"

\* C1: the copy of the payload a submitted send reads from stays allocated
\* until the send's completion handler has fired: no send in flight refers
\* to a block of the free store that has been released.
C1_SendBufferOutlivesSend ==
  \A i \in SendOps : InFlight(ops[i]) => heap[ops[i].buf].alive

\* C2: when the caller has changed or freed its own payload memory after
\* async_send returned, the bytes the socket transmitted are still the
\* payload bytes as they were when async_send was called.
CallerGaveUp(i) ==
  /\ \A j \in SendOps : j <= i
  /\ ~caller_buf.alive \/ caller_buf.bytes # ops[i].payload

C2_TransmitsPayloadAtCall ==
  \A i \in SendOps :
    Transmitted(i) /\ CallerGaveUp(i) => ops[i].sent = ops[i].payload

\* C3 as stated: every send is submitted to the endpoint the server is
\* bound to; the payload's embedded destination address plays no part.
C3_SendsToBoundEndpoint ==
  \A i \in SendOps : InFlight(ops[i]) => ops[i].dest = m_endpoint.m_sockaddr

\* C3 as amended: the destination is a copy of the bound address (family,
\* EtherType, interface index, hardware type, packet type, the two
\* trailing address bytes) whose hardware-address length is ETH_ALEN and
\* whose hardware address is the payload's first ETH_ALEN bytes when the
\* payload has that many.
C3_SendsToPayloadAddressOnBoundInterface ==
  \A i \in SendOps :
    InFlight(ops[i]) =>
      LET d == ops[i].dest
          b == m_endpoint.m_sockaddr
      IN  /\ d.sll_family = b.sll_family
          /\ d.sll_protocol = b.sll_protocol
          /\ d.sll_ifindex = b.sll_ifindex
          /\ d.sll_hatype = b.sll_hatype
          /\ d.sll_pkttype = b.sll_pkttype
          /\ \A k \in ETH_ALEN + 1 .. SLL_ADDR_LEN : d.sll_addr[k] = b.sll_addr[k]
          /\ d.sll_halen = ETH_ALEN
          /\ ops[i].len >= ETH_ALEN =>
               \A k \in 1 .. ETH_ALEN : d.sll_addr[k] = ops[i].payload[k]

\* A send in flight whose payload holds a destination address, sent to an
\* address other than the bound one.
C3_Witness ==
  \E i \in SendOps :
    /\ InFlight(ops[i])
    /\ ops[i].len >= ETH_ALEN
    /\ ops[i].dest # m_endpoint.m_sockaddr
    /\ ops[i].dest.sll_ifindex = Interfaces["eth0"]

\* C4: a receive still outstanding when the server is destroyed completes
\* with operation_aborted and 0 bytes, and no receive completion is ever
\* dispatched to a server that no longer exists.
C4_NoCompletionOnDestroyedServer ==
  \A i \in RecvOps :
    /\ server = "destroyed" => ops[i].state # "pending"
    /\ ops[i].err = "operation_aborted" => ops[i].nb = 0
    /\ ~ops[i].onDead

\* C5: in the listener sample, which calls async_recv once at start-up
\* and then only from handle_recv, at most one receive is outstanding at
\* any time, and exactly one whenever main has armed the first receive and
\* any handle_recv has returned.
OutstandingRecv == {i \in RecvOps : InFlight(ops[i])}

C5_ListenerKeepsOneReceiveOutstanding ==
  /\ Cardinality(OutstandingRecv) <= 1
  /\ pc \in {"armed", "run", "stopped"} => Cardinality(OutstandingRecv) = 1

\* handle_recv has returned on the short-frame path and on the hard-error
\* path, and a receive is outstanding.
C5_Witness ==
  /\ pc = "run"
  /\ \E i \in RecvOps : ops[i].state = "done" /\ ops[i].path = "short"
  /\ \E i \in RecvOps : ops[i].state = "done" /\ ops[i].path = "error"
  /\ Cardinality(OutstandingRecv) = 1

\* C6: two sends in flight read from two different buffers, and each
\* transmits its own payload whatever the other does.
C6_SendsInFlightAreIndependent ==
  \A i, j \in SendOps :
    i # j /\ InFlight(ops[i]) /\ InFlight(ops[j]) =>
      /\ ops[i].buf # ops[j].buf
      /\ Transmitted(i) => ops[i].sent = ops[i].payload

\* C7: the server never arms a receive by itself: every async_recv call
\* arms exactly one receive, a receive's handler is invoked once, when it
\* is done and not before, and with no receive outstanding no receive
\* completion can be dispatched.
C7_OneReceiveOneCompletionPerCall ==
  /\ Cardinality(RecvOps) = recv_calls
  /\ \A i \in RecvOps : ops[i].calls = IF ops[i].state = "done" THEN 1 ELSE 0
  /\ (\A i \in RecvOps : ~InFlight(ops[i])) => ~ENABLED DispatchRecv(MaxOps)

\* handle_recv has returned without arming a receive: none is outstanding.
C7_Witness ==
  /\ server = "alive"
  /\ recv_calls = 1
  /\ \E i \in RecvOps : ops[i].state = "done" /\ ops[i].calls = 1
  /\ \A i \in RecvOps : ~InFlight(ops[i])

\* C8: an operational failure of an armed receive or send is not raised
\* from async_recv or async_send; the handler of that operation is invoked
\* once, with the result code and byte count the socket gave, unchanged.
C8_FailuresReachTheHandlerVerbatim ==
  /\ ops # << >> => thrown = "none"
  /\ \A i \in DOMAIN ops :
       /\ ops[i].state = "done" =>
            ops[i].calls = 1 /\ ops[i].hErr = ops[i].err /\ ops[i].hNb = ops[i].nb
       /\ ops[i].state # "done" => ops[i].calls = 0 /\ ops[i].hErr = "none"

\* A truncated receive, or a failed send, has reached its handler.
C8_Witness ==
  \/ \E i \in RecvOps : ops[i].state = "done" /\ ops[i].hErr = "message_size"
                          /\ ops[i].hNb = ETHER_HDR_LEN
  \/ \E i \in SendOps : ops[i].state = "done" /\ ops[i].hErr = "network_down"
                          /\ ops[i].hNb = 0

\* C9: constructing with a non-empty interface name that does not resolve
\* throws the interface-not-found error before the socket is opened: no
\* socket is open, no server exists and nothing can be armed.
C9_UnknownInterfaceFailsBeforeOpen ==
  lastCtor.called /\ lastCtor.ifname # "" /\ lastCtor.ifname \notin IfNames =>
    /\ thrown = "interface_not_found"
    /\ lastCtor.endpoint = NullEndpoint
    /\ ~lastCtor.opened
    /\ m_socket = "closed"
    /\ server = "none"
    /\ ops = << >>
    /\ ~ENABLED AsyncRecv(MaxOps)

C9_Witness ==
  /\ lastCtor.called
  /\ lastCtor.ifname = "nope0"
  /\ thrown = "interface_not_found"

\* C10: an empty interface name never fails to resolve and gives interface
\* index 0, whatever the filter and whatever errno held before; a name
\* that resolves gives the index the OS reports for it.
C10_EmptyNameIsIndexZeroKnownNameItsIndex ==
  lastCtor.called =>
    LET a == lastCtor.endpoint.m_sockaddr
    IN  /\ lastCtor.ifname = "" =>
             /\ thrown # "interface_not_found"
             /\ a.sll_family = PF_PACKET
             /\ a.sll_ifindex = 0
        /\ lastCtor.ifname \in IfNames =>
             /\ thrown # "interface_not_found"
             /\ a.sll_family = PF_PACKET
             /\ a.sll_ifindex = Interfaces[lastCtor.ifname]

\* The empty name, constructed with a stale errno left by a failed
\* resolution.
C10_Witness ==
  /\ lastCtor.called
  /\ lastCtor.ifname = ""
  /\ lastCtor.errnoBefore = ENODEV
  /\ server = "alive"
  /\ m_endpoint.m_sockaddr.sll_ifindex = 0

---------------------------------------------------------------------------
(* Properties of the endpoint and protocol values *)

\* C11: a filter value v given to the constructor of a protocol descriptor
\* or of an endpoint is stored converted to network order once: the
\* descriptor's protocol() converted back with ntohs is v, and the endpoint's
\* raw address carries the same converted value.
C11_EtherTypeRoundTrip ==
  /\ call.op = "ll_protocol" =>
        /\ ntohs(protocol_protocol(descriptor)) = call.v
        /\ protocol_protocol(descriptor) = htons(call.v)
  /\ (call.op \in {"ll_endpoint(protocol)", "ll_endpoint(ifname, protocol)"}
         /\ ~call.thrown) =>
        LET ep == endpoints[call.dst]
        IN  /\ ntohs(protocol_protocol(endpoint_protocol(ep))) = call.v
            /\ protocol_protocol(endpoint_protocol(ep)) = htons(call.v)
            /\ endpoint_data(ep).sll_protocol = htons(call.v)

\* An endpoint was built on eth0 for ETH_P_IP, 0x0800, and holds 0x0008.
C11_Witness ==
  /\ call.op = "ll_endpoint(ifname, protocol)"
  /\ call.v = ETH_P_IP
  /\ "a" \in DOMAIN endpoints
  /\ endpoint_data(endpoints["a"]).sll_protocol = 8
  /\ protocol_protocol(endpoint_protocol(endpoints["a"])) = 8

\* C12: after a = b, a's raw address bytes are b's and a.protocol() is the
\* protocol descriptor b.protocol() returns.
C12_AssignmentCopiesTheWholeValue ==
  call.op = "operator=" =>
    LET a == endpoints[call.dst]
        b == endpoints[call.src]
    IN  /\ sockaddr_bytes(endpoint_data(a)) = sockaddr_bytes(endpoint_data(b))
        /\ endpoint_protocol(a) = endpoint_protocol(b)

\* The endpoint objects the program has constructed.
Constructed == {endpoints[s] : s \in DOMAIN endpoints}

C14_FamilyIsAlwaysPacket ==
  \A ep \in Constructed : endpoint_data(ep).sll_family = PF_PACKET

\* C15: size() and capacity() are the size of the raw address structure
\* for every endpoint, and resize(s) changes nothing of the endpoint.
C15_SizeIsFixedAndResizeDoesNothing ==
  /\ \A ep \in Constructed :
        /\ endpoint_size(ep) = SOCKADDR_LL_SIZE
        /\ endpoint_capacity(ep) = SOCKADDR_LL_SIZE
  /\ call.op = "resize" =>
        /\ endpoints[call.dst] = call.old
        /\ sockaddr_bytes(endpoint_data(endpoints[call.dst]))
             = sockaddr_bytes(endpoint_data(call.old))

\* An endpoint holding a six-byte hardware address was resized to 0.
C15_Witness ==
  /\ call.op = "resize"
  /\ call.s = 0
  /\ endpoint_data(call.old).sll_halen = ETH_ALEN
  /\ endpoint_size(endpoints[call.dst]) = SOCKADDR_LL_SIZE

---------------------------------------------------------------------------
(* Properties of the server's storage and of its sends *)

\* C16: the storage a pending receive writes the sender's address into
\* is alive from the async_recv call until the receive is performed: no
\* receive still queued refers to storage whose lifetime has ended.
C16_SenderAddressStorageOutlivesReceive ==
  \A i \in RecvOps : ops[i].state = "pending" => ops[i].remote = "alive"

\* C17: async_send reads no byte of the caller's data at or past its
\* length, whether for the destination or for the copy.
C17_SendReadsOnlyInsideThePayload ==
  \A i \in SendOps : InFlight(ops[i]) => ops[i].rd <= ops[i].len

\* C18: the listener's handle_recv reads buffer() only on the path that
\* parses the frame, and there with no receive armed on the buffer; on
\* the hard-error and short-frame paths it does not read it.
C18_ListenerReadsBufferBetweenReceives ==
  \A i \in RecvOps :
    /\ ops[i].read # "outstanding"
    /\ ops[i].path \in {"error", "short"} => ops[i].read = "none"
    /\ ops[i].path = "frame" => ops[i].read = "idle"

\* handle_recv parsed a frame and armed the next receive, which is
\* outstanding.
C18_Witness ==
  /\ pc = "run"
  /\ \E i \in RecvOps :
       ops[i].state = "done" /\ ops[i].path = "frame" /\ ops[i].read = "idle"
  /\ \E i \in RecvOps : ops[i].state = "done" /\ ops[i].path = "short"
  /\ \E i \in RecvOps : ops[i].state = "pending"

\* C19: an async_send, by either overload, leaves the bound endpoint and
\* the receive buffer as they were: the bound endpoint of a live server is
\* the one the constructor made.
C19_SendLeavesEndpointAndBufferAlone ==
  [][/\ server' = "alive" => m_endpoint' = lastCtor'.endpoint
     /\ Cardinality(SendOps') > Cardinality(SendOps) =>
          m_endpoint' = m_endpoint /\ m_buffer' = m_buffer]_vars

\* A send of a payload that carries a destination address was submitted
\* on a server whose bound endpoint has another hardware address.
C19_Witness ==
  /\ server = "alive"
  /\ \E i \in SendOps :
       /\ InFlight(ops[i])
       /\ ops[i].len >= ETH_ALEN
       /\ ops[i].dest # m_endpoint.m_sockaddr
  /\ m_endpoint = lastCtor.endpoint

\* C20: the two overloads submit the same send for the same bytes: a send
\* submitted through the pointer overload and one submitted through the
\* vector overload with the same bytes have the same destination and
\* length, transmit the same bytes, and complete once each.
C20_OverloadsSubmitTheSameSend ==
  /\ \A i \in SendOps : ops[i].calls <= 1
  /\ \A i, j \in SendOps :
       (/\ ops[i].via = "vector" /\ ops[j].via = "pointer"
        /\ ops[i].payload = ops[j].payload) =>
         /\ ops[i].dest = ops[j].dest
         /\ ops[i].len = ops[j].len
         /\ (Transmitted(i) /\ Transmitted(j)) => ops[i].sent = ops[j].sent

---------------------------------------------------------------------------
(* Properties of the endpoint's two members and of its construction *)

\* C21: in every endpoint, after any constructor and any assignments, the
\* EtherType in the raw address is the one protocol().protocol() returns.
C21_AddressAndDescriptorAgreeOnEtherType ==
  \A ep \in Constructed :
    endpoint_data(ep).sll_protocol = protocol_protocol(endpoint_protocol(ep))

\* The constructors that take a filter, with or without an interface name.
FilterCtors == {"ll_endpoint(protocol)", "ll_endpoint(ifname, protocol)"}

\* C22: construction is deterministic in its arguments: an endpoint
\* constructed right after another one, by the same constructor with the
\* same interface name and the same filter, has the same raw address
\* bytes as the first and compares equal to it.
C22_ConstructionIsDeterministic ==
  [][(/\ call.op \in FilterCtors /\ call'.op = call.op
      /\ call'.ifname = call.ifname /\ call'.v = call.v
      /\ ~call.thrown /\ ~call'.thrown
      /\ call'.dst # call.dst) =>
       LET first  == endpoints'[call.dst]
           second == endpoints'[call'.dst]
       IN  /\ sockaddr_bytes(endpoint_data(first))
                = sockaddr_bytes(endpoint_data(second))
           /\ operator_eq(first, second)]_vars

\* The destination that the bound address b and the six bytes mac determine.
DestinationFor(b, mac) ==
  [b EXCEPT !.sll_halen = ETH_ALEN,
            !.sll_addr = [k \in 1 .. SLL_ADDR_LEN |->
                            IF k <= ETH_ALEN THEN mac[k] ELSE @[k]]]

\* C23: for every async_send whose payload has at least ETH_ALEN bytes, the
\* destination handed to the socket has the bound endpoint's family,
\* interface index and EtherType, a hardware-address length of ETH_ALEN and
\* the payload's first ETH_ALEN bytes as hardware address; it is a function
\* of the bound address and those bytes alone, so two sends that agree on
\* them have the same destination whatever the rest of their payloads is.
C23_DestinationFromFirstSixBytesOnly ==
  /\ \A i \in SendOps :
       ops[i].len >= ETH_ALEN =>
         LET d == ops[i].dest
             b == m_endpoint.m_sockaddr
         IN  /\ d.sll_family = PF_PACKET
             /\ d.sll_family = b.sll_family
             /\ d.sll_ifindex = b.sll_ifindex
             /\ d.sll_protocol = b.sll_protocol
             /\ d.sll_halen = ETH_ALEN
             /\ SubSeq(d.sll_addr, 1, ETH_ALEN) = SubSeq(ops[i].payload, 1, ETH_ALEN)
             /\ d = DestinationFor(b, SubSeq(ops[i].payload, 1, ETH_ALEN))
  /\ \A i \in SendOps, j \in SendOps :
       /\ ops[i].len >= ETH_ALEN
       /\ ops[j].len >= ETH_ALEN
       /\ SubSeq(ops[i].payload, 1, ETH_ALEN) = SubSeq(ops[j].payload, 1, ETH_ALEN)
       => ops[i].dest = ops[j].dest

\* A send of a whole frame header on eth0 whose bytes after the destination
\* address are another pattern than the address, addressed by the first
\* ETH_ALEN bytes.
C23_Witness ==
  \E i \in SendOps :
    /\ ops[i].len >= ETHER_HDR_LEN
    /\ SubSeq(ops[i].payload, ETH_ALEN + 1, 2 * ETH_ALEN)
         # SubSeq(ops[i].payload, 1, ETH_ALEN)
    /\ ops[i].payload[ETH_ALEN + 1] # ops[i].payload[1] + ETH_ALEN
    /\ SubSeq(ops[i].dest.sll_addr, 1, ETH_ALEN) = SubSeq(ops[i].payload, 1, ETH_ALEN)
    /\ ops[i].dest.sll_ifindex = Interfaces["eth0"]
    /\ ops[i].dest.sll_protocol = htons(ETH_P_IP)

====
